---- MODULE Spec2Model ----
(***************************************************************************)
(* Strict-Python: the attribute mediator (BaseObject.__setattr__ and       *)
(* BaseObject.__getattribute__), the call boundary wrapper                 *)
(* (ForceStaticTyping) and class construction (BaseObjectMetaClass) of     *)
(* src/src/std/type_system.py.                                             *)
(*                                                                         *)
(* Python strings are sequences of one-character strings, so that          *)
(* startswith, endswith, removeprefix, replace and join are computed the   *)
(* way the code computes them.                                             *)
(***************************************************************************)
EXTENDS Integers, Sequences, FiniteSets, TLC

VARIABLES owner_class, friends_decl, obj_dict, last, classes

vars == <<owner_class, friends_decl, obj_dict, last, classes>>

(***************************************************************************)
(* Bounds.                                                                 *)
(***************************************************************************)
\* The int values of the model are 0..MaxInt.
MaxInt == 1
\* A call passes at most MaxPositional positional arguments (receiver included).
MaxPositional == 2

(***************************************************************************)
(* str methods used by the code.                                           *)
(***************************************************************************)
StartsWith(s, p) == Len(p) <= Len(s) /\ SubSeq(s, 1, Len(p)) = p

EndsWith(s, p) == Len(p) <= Len(s) /\ SubSeq(s, Len(s) - Len(p) + 1, Len(s)) = p

RemovePrefix(s, p) == IF StartsWith(s, p) THEN SubSeq(s, Len(p) + 1, Len(s)) ELSE s

\* str.replace(old, new): every non-overlapping occurrence, left to right.
RECURSIVE Replace(_, _, _)
Replace(s, old, new) ==
    IF Len(s) = 0 THEN <<>>
    ELSE IF StartsWith(s, old)
         THEN new \o Replace(SubSeq(s, Len(old) + 1, Len(s)), old, new)
         ELSE <<Head(s)>> \o Replace(Tail(s), old, new)

\* ".".join([a, b])
Join(a, b) == a \o <<".">> \o b

\* f"_{name}"
Underscore(name) == <<"_">> \o name

DunderPrefix == <<"_", "_">>

(***************************************************************************)
(* Names: classes, functions, modules, attributes.                         *)
(***************************************************************************)
N_object == <<"o", "b", "j", "e", "c", "t">>
N_BaseObject == <<"B", "a", "s", "e", "O", "b", "j", "e", "c", "t">>
N_Test == <<"T", "e", "s", "t">>
N_Derived == <<"D", "e", "r", "i", "v", "e", "d">>
N_Friend == <<"F", "r", "i", "e", "n", "d">>
N_Other == <<"O", "t", "h", "e", "r">>
NoClass == <<>>

N_init == <<"_", "_", "i", "n", "i", "t", "_", "_">>
N_method == <<"m", "e", "t", "h", "o", "d">>
N_other == <<"o", "t", "h", "e", "r">>
N_function == <<"f", "u", "n", "c", "t", "i", "o", "n">>
N_test == <<"t", "e", "s", "t">>
N_getmembers == <<"_", "g", "e", "t", "m", "e", "m", "b", "e", "r", "s">>

N_inspect == <<"i", "n", "s", "p", "e", "c", "t">>
N_main == <<"_", "_", "m", "a", "i", "n", "_", "_">>

N_attribute == <<"a", "t", "t", "r", "i", "b", "u", "t", "e">>
N_p_attribute == <<"_", "a", "t", "t", "r", "i", "b", "u", "t", "e">>
N_pp_attribute == <<"_", "_", "a", "t", "t", "r", "i", "b", "u", "t", "e">>
N_Test_pp_attribute == Underscore(N_Test) \o N_pp_attribute
N_p_Friend_x == <<"_", "F", "r", "i", "e", "n", "d", "_", "x">>
N_const == <<"c", "o", "n", "s", "t">>
N_undeclared == <<"u", "n", "d", "e", "c", "l", "a", "r", "e", "d">>
N_class == <<"_", "_", "c", "l", "a", "s", "s", "_", "_">>
N_self == <<"s", "e", "l", "f">>
N_param == <<"p", "a", "r", "a", "m">>
N_key == <<"k", "e", "y">>
N_get == <<"g", "e", "t">>
N_no_return == <<"n", "o", "_", "r", "e", "t", "u", "r", "n">>
N_star == <<"s", "t", "a", "r">>
N_keywords == <<"k", "e", "y", "w", "o", "r", "d", "s">>
N_both == <<"b", "o", "t", "h">>
N_unannotated == <<"u", "n", "a", "n", "n", "o", "t", "a", "t", "e", "d">>
NoKey == <<>>

(***************************************************************************)
(* Values and type hints.                                                  *)
(***************************************************************************)
IntVal(n) == [type |-> "int", val |-> n]
StrVal == [type |-> "str", val |-> 0]
NoneVal == [type |-> "NoneType", val |-> 0]
\* the class object an instance's __class__ yields
ClassVal == [type |-> "type", val |-> 0]
\* the instance the model follows, passed as a receiver
SelfVal == [type |-> "object", val |-> 0]
\* a key absent from the instance __dict__ and from the class
Unset == [type |-> "<unset>", val |-> 0]

Ints == {IntVal(n) : n \in 0..MaxInt}

T_int == [origin |-> "class", arg |-> "int"]
T_None == [origin |-> "class", arg |-> "NoneType"]
T_NoReturn == [origin |-> "NoReturn", arg |-> ""]
\* std.Const[int] is typing.Final[int]
T_Const_int == [origin |-> "Final", arg |-> "int"]
\* no annotation
T_Missing == [origin |-> "<missing>", arg |-> ""]

\* typeguard.check_type(value, expected): TRUE when no TypeCheckError is
\* raised.  A class is checked with isinstance.  typing.Final[...] has the
\* origin typing.Final, which is no class and has no checker, so nothing is
\* checked and nothing is raised (typeguard 4.3.0).
check_type(value, expected) ==
    IF expected.origin = "class" THEN value.type = expected.arg ELSE TRUE

(***************************************************************************)
(* The classes of the model: Test(BaseObject), Derived(Test),              *)
(* Friend(BaseObject), and Other, a plain class.                           *)
(***************************************************************************)
Parent(c) ==
    CASE c = N_Test -> N_BaseObject
      [] c = N_Derived -> N_Test
      [] c = N_Friend -> N_BaseObject
      [] c = N_BaseObject -> N_object
      [] OTHER -> N_object

\* cls.__mro__ as a set, object excluded: __mro__[:-1]
RECURSIVE MroButObject(_)
MroButObject(c) == IF c = N_object THEN {} ELSE {c} \cup MroButObject(Parent(c))

\* the annotations of a class body
Annotations(c) ==
    IF c = N_Test
    THEN {<<N_attribute, T_int>>, <<N_p_attribute, T_int>>,
          <<N_Test_pp_attribute, T_int>>, <<N_p_Friend_x, T_int>>,
          <<N_const, T_Const_int>>}
    ELSE {}

\* typing.get_type_hints(cls): the annotations along the resolution order
get_type_hints(c) == UNION {Annotations(b) : b \in MroButObject(c)}

HintKeys(c) == {h[1] : h \in get_type_hints(c)}

Hint(c, key) == (CHOOSE h \in get_type_hints(c) : h[1] = key)[2]

Keys == HintKeys(N_Test) \cup {N_undeclared}

\* BaseObject.__friends__
BaseObjectFriends == {N_inspect \o <<".">> \o N_getmembers}

\* cls.__friends__ after BaseObjectMetaClass.__init__: the class's own
\* declaration, or else what its base holds, united with __mro__[-2].__friends__
\* (__mro__[-2] is BaseObject).  Only Test declares __friends__ here.
Friends(c) ==
    IF c \in {N_Test, N_Derived} THEN friends_decl \cup BaseObjectFriends
    ELSE BaseObjectFriends

(***************************************************************************)
(* Results of an operation.                                                *)
(***************************************************************************)
Return(v) == [kind |-> "return", exc |-> "", value |-> v]
Raise(e) == [kind |-> "raise", exc |-> e, value |-> NoneVal]

(***************************************************************************)
(* BaseObject.__setattr__(self, key, value), called from a frame whose     *)
(* function is `function` (inspect.stack()[1].function).                   *)
(***************************************************************************)
IsConstViolation_never(c, key, function) == FALSE

IsConstViolation_set_once(c, key, function) ==
    Hint(c, key).origin = "Final" /\ (function # N_init \/ obj_dict[key] # Unset)

\* line 205: the hint is Final and the caller is not named __init__
IsConstViolation(c, key, function) ==
    Hint(c, key).origin = "Final" /\ function # N_init

\* a variant that refuses every write to a non-public name
setattr_result_public_only(c, key, value, function) ==
    IF key \notin HintKeys(c) THEN Raise("AnnotationException")
    ELSE IF key[1] = "_" THEN Raise("AccessModifierException")
    ELSE IF IsConstViolation(c, key, function) THEN Raise("ConstModifierException")
    ELSE IF ~check_type(value, Hint(c, key)) THEN Raise("TypeMismatchException")
    ELSE Return(NoneVal)

\* a variant that lets an undeclared name through to object.__setattr__
setattr_result_dynamic(c, key, value, function) ==
    IF key \notin HintKeys(c) THEN Return(NoneVal)
    ELSE IF IsConstViolation(c, key, function) THEN Raise("ConstModifierException")
    ELSE IF ~check_type(value, Hint(c, key)) THEN Raise("TypeMismatchException")
    ELSE Return(NoneVal)

\* lines 195-220
setattr_result(c, key, value, function) ==
    IF key \notin HintKeys(c) THEN Raise("AnnotationException")
    ELSE IF IsConstViolation(c, key, function) THEN Raise("ConstModifierException")
    ELSE IF ~check_type(value, Hint(c, key)) THEN Raise("TypeMismatchException")
    ELSE Return(NoneVal)

\* the instance __dict__ after the call: object.__setattr__ runs only when
\* nothing was raised
setattr_dict(d, c, key, value, function) ==
    IF setattr_result(c, key, value, function).kind = "return"
    THEN [d EXCEPT ![key] = value]
    ELSE d

SetFunctions == {N_init, N_method}

\* the keys and values the write steps draw from
SetKeys == {N_attribute, N_Test_pp_attribute, N_const, N_undeclared}

SetValues == Ints \cup {StrVal}

SetAttr(key, value, function) ==
    /\ obj_dict' = setattr_dict(obj_dict, owner_class, key, value, function)
    /\ last' = [op |-> "setattr", key |-> key, value |-> value,
                function |-> function, before |-> obj_dict,
                result |-> setattr_result(owner_class, key, value, function)]
    /\ UNCHANGED <<owner_class, friends_decl, classes>>

SetAttrStep == \E key \in SetKeys, value \in SetValues, function \in SetFunctions :
                   SetAttr(key, value, function)

(***************************************************************************)
(* object.__getattribute__(self, item): the instance __dict__, then the    *)
(* class; AttributeError when neither holds the name.                      *)
(***************************************************************************)
object_getattribute(d, c, item) ==
    IF item \in DOMAIN d /\ d[item] # Unset THEN Return(d[item])
    ELSE IF item = N_class THEN Return(ClassVal)
    ELSE Raise("AttributeError")

(***************************************************************************)
(* The calling context: inspect.currentframe().f_back.                     *)
(*   co_name     f_code.co_name                                            *)
(*   has_self    "self" in f_locals                                        *)
(*   self_class  f_locals["self"].__class__.__name__                       *)
(*   module      f_globals["__name__"]                                     *)
(*   lexical     the class whose body holds the caller's code (NoClass for *)
(*               a module-level function): the compiler rewrites a name    *)
(*               __x written there to _<lexical>__x                        *)
(***************************************************************************)
FunctionFrame(name) ==
    [co_name |-> name, has_self |-> FALSE, self_class |-> NoClass,
     module |-> N_main, lexical |-> NoClass]

MethodFrame(name, lexical, self_class) ==
    [co_name |-> name, has_self |-> TRUE, self_class |-> self_class,
     module |-> N_main, lexical |-> lexical]

\* a module-level function that holds a local variable named self, bound
\* to an object of class self_class
SelfFunctionFrame(name, self_class) ==
    [co_name |-> name, has_self |-> TRUE, self_class |-> self_class,
     module |-> N_main, lexical |-> NoClass]

\* inspect.getmembers reading the members of the instance
InspectFrame ==
    [co_name |-> N_getmembers, has_self |-> FALSE, self_class |-> NoClass,
     module |-> N_inspect, lexical |-> NoClass]

Frames ==
    { FunctionFrame(N_function), FunctionFrame(N_test), InspectFrame,
      MethodFrame(N_method, N_Test, N_Test),
      MethodFrame(N_method, N_Test, N_Derived),
      MethodFrame(N_method, N_Derived, N_Derived),
      MethodFrame(N_method, N_Friend, N_Friend),
      MethodFrame(N_other, N_Friend, N_Friend),
      MethodFrame(N_method, N_Other, N_Other),
      SelfFunctionFrame(N_function, N_Other),
      SelfFunctionFrame(N_test, N_Test),
      SelfFunctionFrame(N_test, N_Derived) }

\* Private name mangling of the attribute name `name` written in the body of
\* class `lexical`.
Mangle(lexical, name) ==
    IF lexical # NoClass /\ StartsWith(name, DunderPrefix) /\ ~EndsWith(name, DunderPrefix)
    THEN Underscore(lexical) \o name
    ELSE name

(***************************************************************************)
(* BaseObject.__getattribute__(self, item)                                 *)
(***************************************************************************)
\* a variant without the test of the caller's module
IsBypass_special_only(item, frame) ==
    StartsWith(item, DunderPrefix) /\ EndsWith(item, DunderPrefix)

\* line 240
IsBypass(item, frame) ==
    (StartsWith(item, DunderPrefix) /\ EndsWith(item, DunderPrefix))
    \/ frame.module = N_inspect

\* a variant that tests the name of the caller alone
IsFriendFunction_by_name(c, frame) == frame.co_name \in Friends(c)

\* line 253
IsFriendFunction(c, frame) ==
    frame.co_name \in Friends(c) /\ ~frame.has_self

\* lines 263-264
IsSubClassAccess_no_private_test(c, item, frame) ==
    frame.has_self /\ frame.self_class \in MroButObject(c)

IsSubClassAccess(c, item, frame) ==
    /\ frame.has_self
    /\ frame.self_class \in MroButObject(c)
    /\ ~StartsWith(RemovePrefix(item, Underscore(c)), DunderPrefix)

\* lines 269-270
IsFriendClass(c, frame) ==
    frame.has_self /\ frame.self_class \in Friends(c)

\* line 271
FriendClassKey(c, item, frame) ==
    Replace(item, Underscore(frame.self_class), Underscore(c))

\* lines 275-276
IsFriendMethod(c, frame) ==
    frame.has_self /\ Join(frame.self_class, frame.co_name) \in Friends(c)

getattribute(d, c, item, frame) ==
    IF IsBypass(item, frame) THEN object_getattribute(d, c, item)
    ELSE IF item[1] = "_"
    THEN IF IsFriendFunction(c, frame) THEN object_getattribute(d, c, item)
         ELSE IF IsSubClassAccess(c, item, frame) THEN object_getattribute(d, c, item)
         ELSE IF IsFriendClass(c, frame)
              THEN object_getattribute(d, c, FriendClassKey(c, item, frame))
         ELSE IF IsFriendMethod(c, frame) THEN object_getattribute(d, c, item)
         ELSE Raise("AccessModifierException")
    ELSE object_getattribute(d, c, item)

\* the attribute names a caller writes in its source
SourceNames ==
    {N_attribute, N_p_attribute, N_p_Friend_x, N_pp_attribute,
     N_Test_pp_attribute, N_class}

GetAttr(name, frame) ==
    /\ last' = [op |-> "getattr", name |-> name,
                item |-> Mangle(frame.lexical, name), frame |-> frame,
                result |-> getattribute(obj_dict, owner_class,
                                        Mangle(frame.lexical, name), frame)]
    /\ UNCHANGED <<owner_class, friends_decl, obj_dict, classes>>

GetAttrStep == \E name \in SourceNames, frame \in Frames : GetAttr(name, frame)

(***************************************************************************)
(* The constructor of the tests' class Test, run on the instance (Derived  *)
(* inherits it): one assignment per declared attribute, each through       *)
(* __setattr__ from the frame of __init__; the first one that raises ends  *)
(* the run.                                                                *)
(***************************************************************************)
InitAssignments ==
    <<N_const, N_attribute, N_p_attribute, N_Test_pp_attribute, N_p_Friend_x>>

RECURSIVE RunAssignments(_, _, _, _, _)
RunAssignments(d, c, keys, value, function) ==
    IF keys = <<>> THEN [dict |-> d, result |-> Return(NoneVal)]
    ELSE IF setattr_result(c, Head(keys), value, function).kind = "raise"
         THEN [dict |-> d, result |-> setattr_result(c, Head(keys), value, function)]
         ELSE RunAssignments(setattr_dict(d, c, Head(keys), value, function),
                             c, Tail(keys), value, function)

Construct(value) ==
    /\ obj_dict' = RunAssignments(obj_dict, owner_class, InitAssignments, value, N_init).dict
    /\ last' = [op |-> "construct", value |-> value,
                result |-> RunAssignments(obj_dict, owner_class, InitAssignments,
                                          value, N_init).result]
    /\ UNCHANGED <<owner_class, friends_decl, classes>>

ConstructStep == \E value \in SetValues : Construct(value)

(***************************************************************************)
(* The wrapped functions of class Test.  params: the parameter names in    *)
(* order, the collectors left out; var_args, var_kwargs: the def has       *)
(* *args, **kwargs; hints: typing.get_type_hints(function) without         *)
(* "return", in order (every parameter but self and the collectors is      *)
(* annotated); ret: the return annotation; key: the attribute the body     *)
(* assigns `param` to (NoKey: the body assigns nothing).  Every body then  *)
(* returns a value r.                                                      *)
(***************************************************************************)
Function(name, params, hints, ret, key) ==
    [name |-> name, params |-> params, var_args |-> FALSE, var_kwargs |-> FALSE,
     hints |-> hints, ret |-> ret, key |-> key]

F_init == Function(N_init, <<N_self, N_param>>, <<T_int>>, T_None, N_const)

F_method == Function(N_method, <<N_self, N_param>>, <<T_int>>, T_None, N_attribute)

F_get == Function(N_get, <<N_self>>, <<>>, T_int, NoKey)

F_no_return == Function(N_no_return, <<N_self>>, <<>>, T_NoReturn, NoKey)

F_unannotated == Function(N_unannotated, <<N_self>>, <<>>, T_Missing, NoKey)

\* def star(self, *args) -> None
F_star == [Function(N_star, <<N_self>>, <<>>, T_None, NoKey) EXCEPT !.var_args = TRUE]

\* def keywords(self, **kwargs) -> None
F_keywords ==
    [Function(N_keywords, <<N_self>>, <<>>, T_None, NoKey) EXCEPT !.var_kwargs = TRUE]

\* def both(self, param: int, *args) -> None
F_both ==
    [Function(N_both, <<N_self, N_param>>, <<T_int>>, T_None, NoKey) EXCEPT
        !.var_args = TRUE]

Functions ==
    {F_init, F_method, F_get, F_no_return, F_unannotated, F_star, F_keywords, F_both}

(***************************************************************************)
(* ForceStaticTyping(function)._impl, called with the positional          *)
(* arguments function_args and the keyword arguments function_kwargs.      *)
(***************************************************************************)
\* lines 82-83: 1 when function_args[0] has a bound method named as the
\* function, which only the instance of Test has
head(f, function_args) ==
    IF function_args[1] = SelfVal /\ f.name \in {g.name : g \in Functions} THEN 1 ELSE 0

\* function_args[head:]
CheckedArgs(f, function_args) ==
    SubSeq(function_args, head(f, function_args) + 1, Len(function_args))

MinLen(a, b) == IF Len(a) <= Len(b) THEN Len(a) ELSE Len(b)

\* lines 91-95: some pair of the zip fails check_type
ParamMismatch_unchecked(f, checked) == FALSE

ParamMismatch(f, checked) ==
    \E i \in 1..MinLen(checked, f.hints) : ~check_type(checked[i], f.hints[i])

\* line 100, the call of function: how Python binds the
\* arguments to the parameters (no defaults): *args takes the positional
\* arguments beyond the parameters, **kwargs the keywords that name none
KwNames(kwargs) == {kw[1] : kw \in kwargs}

ParamIndex(f, name) == CHOOSE i \in 1..Len(f.params) : f.params[i] = name

BindError(f, function_args, kwargs) ==
    \/ ~f.var_args /\ Len(function_args) > Len(f.params)
    \/ \E kw \in kwargs :
          \/ ~f.var_kwargs /\ \A i \in 1..Len(f.params) : f.params[i] # kw[1]
          \/ \E i \in 1..Len(function_args) : i <= Len(f.params) /\ f.params[i] = kw[1]
    \/ \E i \in (Len(function_args) + 1)..Len(f.params) : f.params[i] \notin KwNames(kwargs)

Bound(f, function_args, kwargs, name) ==
    IF ParamIndex(f, name) <= Len(function_args)
    THEN function_args[ParamIndex(f, name)]
    ELSE (CHOOSE kw \in kwargs : kw[1] = name)[2]

\* the body: self.<key> = param, then return r
body_result(f, c, self, param, r) ==
    IF f.key = NoKey THEN Return(r)
    ELSE IF self # SelfVal THEN Raise("AttributeError")
    ELSE IF setattr_result(c, f.key, param, f.name).kind = "raise"
         THEN setattr_result(c, f.key, param, f.name)
         ELSE Return(r)

body_dict(f, d, c, self, param) ==
    IF f.key = NoKey \/ self # SelfVal THEN d
    ELSE setattr_dict(d, c, f.key, param, f.name)

\* lines 102-114: the check of the value the body returned
return_check_no_NoReturn(f, r) ==
    IF f.ret # T_NoReturn /\ ~check_type(r, f.ret) THEN Raise("TypeMismatchException")
    ELSE Return(r)

return_check(f, r) ==
    IF f.ret = T_NoReturn /\ r # NoneVal THEN Raise("TypeMismatchException")
    ELSE IF f.ret # T_NoReturn /\ ~check_type(r, f.ret) THEN Raise("TypeMismatchException")
    ELSE Return(r)

NotEntered(d, result) ==
    [dict |-> d, entered |-> FALSE, returned |-> Unset, result |-> result]

\* the value bound to the parameter `name`; None when there is no such parameter
Argument(f, function_args, kwargs, name) ==
    IF \E i \in 1..Len(f.params) : f.params[i] = name
    THEN Bound(f, function_args, kwargs, name)
    ELSE NoneVal

\* line 100 with the body, lines 102-114: binding, body, return check
invoke(f, d, c, function_args, kwargs, r) ==
    LET self == Argument(f, function_args, kwargs, N_self)
        param == Argument(f, function_args, kwargs, N_param)
    IN  IF BindError(f, function_args, kwargs) THEN NotEntered(d, Raise("TypeError"))
        ELSE IF body_result(f, c, self, param, r).kind = "raise"
        THEN [dict |-> d, entered |-> TRUE, returned |-> Unset,
              result |-> body_result(f, c, self, param, r)]
        ELSE [dict |-> body_dict(f, d, c, self, param), entered |-> TRUE,
              returned |-> r, result |-> return_check(f, r)]

impl(f, d, c, function_args, kwargs, r) ==
    IF f.ret = T_Missing THEN NotEntered(d, Raise("AnnotationException"))
    ELSE IF Len(function_args) = 0 THEN NotEntered(d, Raise("IndexError"))
    ELSE IF Len(f.hints) < Len(CheckedArgs(f, function_args))
         THEN NotEntered(d, Raise("AnnotationException"))
    ELSE IF ParamMismatch(f, CheckedArgs(f, function_args))
         THEN NotEntered(d, Raise("TypeMismatchException"))
    ELSE invoke(f, d, c, function_args, kwargs, r)

ArgValues == {SelfVal, IntVal(0), StrVal}

PositionalChoices ==
    UNION {[1..n -> ArgValues] : n \in 0..MaxPositional}

KwargChoices == {{}, {<<N_param, StrVal>>}, {<<N_key, StrVal>>}}

ReturnChoices == {NoneVal, IntVal(0), StrVal}

Call(f, function_args, kwargs, r) ==
    LET done == impl(f, obj_dict, owner_class, function_args, kwargs, r)
    IN  /\ obj_dict' = done.dict
        /\ last' = [op |-> "call", f |-> f, function_args |-> function_args,
                    kwargs |-> kwargs, before |-> obj_dict,
                    entered |-> done.entered, returned |-> done.returned,
                    result |-> done.result]
        /\ UNCHANGED <<owner_class, friends_decl, classes>>

CallStep == \E f \in Functions, function_args \in PositionalChoices,
               kwargs \in KwargChoices, r \in ReturnChoices :
                Call(f, function_args, kwargs, r)

(***************************************************************************)
(* BaseObject.__setattr__ called from a frame: of the caller the code      *)
(* reads inspect.stack()[1].function, the name of its function, alone.     *)
(***************************************************************************)
WriterFrames ==
    { MethodFrame(N_init, N_Test, N_Test),
      MethodFrame(N_init, N_Derived, N_Derived),
      MethodFrame(N_init, N_Other, N_Other),
      MethodFrame(N_method, N_Test, N_Test),
      MethodFrame(N_method, N_Other, N_Other),
      FunctionFrame(N_init),
      FunctionFrame(N_function) }

\* the attribute names a writer writes in its source: the compiler mangles
\* __attribute written in a class body before __setattr__ receives the key
WrittenNames ==
    {N_p_attribute, N_pp_attribute, N_Test_pp_attribute, N_const, N_undeclared}

SetAttrFrom(name, value, frame) ==
    LET key == Mangle(frame.lexical, name)
    IN  /\ obj_dict' = setattr_dict(obj_dict, owner_class, key, value, frame.co_name)
        /\ last' = [op |-> "setattr_from", name |-> name, key |-> key, value |-> value,
                    frame |-> frame, before |-> obj_dict,
                    result |-> setattr_result(owner_class, key, value, frame.co_name)]
        /\ UNCHANGED <<owner_class, friends_decl, classes>>

SetAttrFromStep == \E name \in WrittenNames, value \in SetValues, frame \in WriterFrames :
                       SetAttrFrom(name, value, frame)

(***************************************************************************)
(* Class construction: BaseObjectMetaClass.__new__ and __init__.           *)
(*                                                                         *)
(* classes maps the name of every class that exists to its record: bases   *)
(* (in order), mro (__mro__), dict (the members of the class body, in      *)
(* order) and friends (__friends__).  A member is a record: name, callable *)
(* (builtins.callable of the value), flags (the __is_virtual__,            *)
(* __is_abstract__ and __is_override__ marks of the value), wrapped (line  *)
(* 151 replaced the value by ForceStaticTyping of it; functools.wraps      *)
(* copies the marks), ret (the return annotation) and value (what the body *)
(* returns, or the value of a member that is not callable).                *)
(***************************************************************************)
N_X == <<"X">>
N_Y == <<"Y">>
N_Z == <<"Z">>
N_value == <<"v", "a", "l", "u", "e">>
N_item == <<"i", "t", "e", "m">>
N_args == <<"a", "r", "g", "s">>
N_kwargs == <<"k", "w", "a", "r", "g", "s">>
N_prop == <<"p", "r", "o", "p">>
N_attr == <<"a", "t", "t", "r">>
N_getattr == <<"_", "_", "g", "e", "t", "a", "t", "t", "r", "_", "_">>
N_setattr == <<"_", "_", "s", "e", "t", "a", "t", "t", "r", "_", "_">>
N_getattribute ==
    <<"_", "_", "g", "e", "t", "a", "t", "t", "r", "i", "b", "u", "t", "e", "_", "_">>

\* line 138
blacklist == {N_getattr, N_setattr, N_getattribute}

\* a parameter of a def: its name, its kind ("receiver" for self, "plain",
\* "star_args" for *args, "star_kwargs" for **kwargs) and whether the def
\* annotates it
Param(name, kind, annotated) == [name |-> name, kind |-> kind, annotated |-> annotated]

Receiver == Param(N_self, "receiver", FALSE)

\* a member of a class body: def name(self) -> ret when callable, else a value
Member(name, callable, flags, ret, value) ==
    [name |-> name, callable |-> callable, flags |-> flags, wrapped |-> FALSE,
     ret |-> ret, value |-> value,
     params |-> IF callable THEN <<Receiver>> ELSE <<>>,
     annotated |-> FALSE, property |-> FALSE]

\* BaseObject: its body defines __setattr__(self, key, value) -> NoReturn and
\* __getattribute__(self, item); __mro__ is (BaseObject, object)
BaseObjectClass ==
    [bases |-> <<N_object>>,
     mro |-> <<N_BaseObject, N_object>>,
     dict |-> <<[Member(N_setattr, TRUE, {}, T_NoReturn, NoneVal) EXCEPT
                    !.params = <<Receiver, Param(N_key, "plain", FALSE),
                                 Param(N_value, "plain", FALSE)>>],
                [Member(N_getattribute, TRUE, {}, T_Missing, NoneVal) EXCEPT
                    !.params = <<Receiver, Param(N_item, "plain", FALSE)>>]>>,
     friends |-> BaseObjectFriends]

InitialClasses == [c \in {N_BaseObject} |-> BaseObjectClass]

\* attr_name in b.__dict__, and b.__dict__[attr_name]
InDict(dictionary, name) == \E i \in 1..Len(dictionary) : dictionary[i].name = name

DictMember(dictionary, name) ==
    dictionary[CHOOSE i \in 1..Len(dictionary) : dictionary[i].name = name]

\* line 141
IsChecked(m) == m.callable /\ m.name \notin blacklist

\* line 145: the base defines the name and its value carries neither
\* __is_virtual__ nor __is_abstract__
NotVirtual(table, b, m) ==
    /\ InDict(table[b].dict, m.name)
    /\ DictMember(table[b].dict, m.name).flags \cap {"virtual", "abstract"} = {}

\* line 148: the base defines the name and the new value carries no
\* __is_override__
NotOverride_unchecked(table, b, m) == FALSE

NotOverride(table, b, m) ==
    /\ InDict(table[b].dict, m.name)
    /\ "override" \notin m.flags

\* lines 144-149 for one member: the bases but BaseObject, in order; "" when
\* nothing is raised
RECURSIVE check_bases_override_first(_, _, _, _)
check_bases_override_first(table, bases, m, j) ==
    IF j > Len(bases) THEN ""
    ELSE IF bases[j] # N_BaseObject /\ NotOverride(table, bases[j], m)
         THEN "OverrideMethodException"
    ELSE IF bases[j] # N_BaseObject /\ NotVirtual(table, bases[j], m)
         THEN "VirtualMethodException"
    ELSE check_bases_override_first(table, bases, m, j + 1)

RECURSIVE check_bases(_, _, _, _)
check_bases(table, bases, m, j) ==
    IF j > Len(bases) THEN ""
    ELSE IF bases[j] # N_BaseObject /\ NotVirtual(table, bases[j], m)
         THEN "VirtualMethodException"
    ELSE IF bases[j] # N_BaseObject /\ NotOverride(table, bases[j], m)
         THEN "OverrideMethodException"
    ELSE check_bases(table, bases, m, j + 1)

\* lines 140-151: the members of the body, in order
RECURSIVE check_members(_, _, _, _)
check_members(table, bases, dictionary, i) ==
    IF i > Len(dictionary) THEN ""
    ELSE LET raised == IF IsChecked(dictionary[i])
                       THEN check_bases(table, bases, dictionary[i], 1)
                       ELSE ""
         IN  IF raised # "" THEN raised
             ELSE check_members(table, bases, dictionary, i + 1)

\* line 151
wrap(dictionary) ==
    [i \in 1..Len(dictionary) |->
        IF IsChecked(dictionary[i]) THEN [dictionary[i] EXCEPT !.wrapped = TRUE]
        ELSE dictionary[i]]

\* lines 153-159: a callable of a base carries __is_abstract__ and its name is
\* not in the body of the new class
AbstractMissing(table, bases, dictionary) ==
    \E j \in 1..Len(bases) : \E k \in 1..Len(table[bases[j]].dict) :
        /\ table[bases[j]].dict[k].callable
        /\ "abstract" \in table[bases[j]].dict[k].flags
        /\ ~InDict(dictionary, table[bases[j]].dict[k].name)

\* line 161, type.__new__: __mro__ is the C3 merge of the __mro__ of the bases
\* and the list of bases; there may be none
InTail(seqs, x) ==
    \E k \in 1..Len(seqs) : \E n \in 2..Len(seqs[k]) : seqs[k][n] = x

Without(seq, x) == SelectSeq(seq, LAMBDA y : y # x)

RECURSIVE merge(_)
merge(seqs) ==
    LET rest == SelectSeq(seqs, LAMBDA q : Len(q) > 0)
        good == {k \in 1..Len(rest) : ~InTail(rest, rest[k][1])}
    IN  IF Len(rest) = 0 THEN [ok |-> TRUE, seq |-> <<>>]
        ELSE IF good = {} THEN [ok |-> FALSE, seq |-> <<>>]
        ELSE LET k == CHOOSE g \in good : \A h \in good : g <= h
                 x == rest[k][1]
                 more == merge([n \in 1..Len(rest) |-> Without(rest[n], x)])
             IN  [ok |-> more.ok, seq |-> <<x>> \o more.seq]

mro(table, name, bases) ==
    LET m == merge([j \in 1..Len(bases) |-> table[bases[j]].mro] \o <<bases>>)
    IN  [ok |-> m.ok, seq |-> <<name>> \o m.seq]

\* __new__: what the class statement raises, "" when the class is created
new_raises(table, name, bases, dictionary) ==
    LET raised == check_members(table, bases, dictionary, 1)
    IN  IF raised # "" THEN raised
        ELSE IF AbstractMissing(table, bases, dictionary) THEN "AbstractMethodException"
        ELSE IF ~mro(table, name, bases).ok THEN "TypeError"
        ELSE ""

\* no __friends__ in the body, or the set the body declares
NoFriends == [has |-> FALSE, names |-> {}]
DeclaredFriends(names) == [has |-> TRUE, names |-> names]

\* line 172.  cls.__friends__ is the declaration of the body or, without one,
\* what the next class of __mro__ holds (every class holds its own set once
\* its __init__ ran); __mro__[-2] is the class before object
metaclass_init(table, bases, linear, declared) ==
    (IF declared.has THEN declared.names ELSE table[linear[2]].friends)
        \cup table[linear[Len(linear) - 1]].friends

new_class(table, name, bases, dictionary, declared) ==
    LET linear == mro(table, name, bases).seq
    IN  [bases |-> bases,
         mro |-> linear,
         dict |-> wrap(dictionary),
         friends |-> metaclass_init(table, bases, linear, declared)]

\* the class statement: class name(bases) with the body dictionary
DefineClass(name, bases, dictionary, declared) ==
    LET raised == new_raises(classes, name, bases, dictionary)
    IN  /\ name \notin DOMAIN classes
        /\ \A j \in 1..Len(bases) : bases[j] \in DOMAIN classes
        /\ classes' =
              IF raised = ""
              THEN [c \in DOMAIN classes \cup {name} |->
                       IF c = name
                       THEN new_class(classes, name, bases, dictionary, declared)
                       ELSE classes[c]]
              ELSE classes
        /\ last' = [op |-> "class", name |-> name, bases |-> bases,
                    dictionary |-> dictionary, declared |-> declared,
                    result |-> IF raised = "" THEN Return(NoneVal) ELSE Raise(raised)]
        /\ UNCHANGED <<owner_class, friends_decl, obj_dict>>

\* getattr(instance, name) resolved along __mro__: the first class whose body
\* holds the name (object holds none of the names used here)
RECURSIVE lookup(_, _, _, _)
lookup(table, linear, name, i) ==
    IF i > Len(linear) THEN [found |-> FALSE, owner |-> NoClass]
    ELSE IF linear[i] \in DOMAIN table /\ InDict(table[linear[i]].dict, name)
         THEN [found |-> TRUE, owner |-> linear[i]]
    ELSE lookup(table, linear, name, i + 1)

\* the function a member was defined from: its parameters but the variadic
\* collectors, and the annotations of its parameters in order
MemberFunction(m) ==
    [name |-> m.name,
     params |-> [i \in 1..Len(SelectSeq(m.params, LAMBDA q : q.kind \in {"receiver", "plain"})) |->
                    SelectSeq(m.params, LAMBDA q : q.kind \in {"receiver", "plain"})[i].name],
     var_args |-> \E k \in 1..Len(m.params) : m.params[k].kind = "star_args",
     var_kwargs |-> \E k \in 1..Len(m.params) : m.params[k].kind = "star_kwargs",
     hints |-> [i \in 1..Len(SelectSeq(m.params, LAMBDA q : q.annotated)) |-> T_int],
     ret |-> m.ret, key |-> NoKey]

\* instance.name() for the member m found in the class `owner`
call_member(m, c) ==
    IF ~m.callable THEN Raise("TypeError")
    ELSE IF m.wrapped
         THEN impl(MemberFunction(m), obj_dict, c, <<SelfVal>>, {}, m.value).result
    ELSE Return(m.value)

\* c().name(): the constructor found along __mro__ runs first (object's when
\* no class defines one), then the member found along __mro__.  When no class
\* holds the name, a __getattr__ found along __mro__ supplies the attribute:
\* the value its body returns, which is not callable.
construct_and_call(table, c, name) ==
    LET init == lookup(table, table[c].mro, N_init, 1)
        found == lookup(table, table[c].mro, name, 1)
        fallback == lookup(table, table[c].mro, N_getattr, 1)
    IN  IF init.found /\ call_member(DictMember(table[init.owner].dict, N_init), c).kind = "raise"
        THEN call_member(DictMember(table[init.owner].dict, N_init), c)
        ELSE IF found.found THEN call_member(DictMember(table[found.owner].dict, name), c)
        ELSE IF fallback.found THEN Raise("TypeError")
        ELSE Raise("AttributeError")

CallMethod(c, name) ==
    /\ c \in DOMAIN classes
    /\ last' = [op |-> "call_method", class |-> c, name |-> name,
                owner |-> lookup(classes, classes[c].mro, name, 1).owner,
                result |-> construct_and_call(classes, c, name)]
    /\ UNCHANGED <<owner_class, friends_decl, obj_dict, classes>>

\* The class statements the steps draw from.  The classes are declared in the
\* order X, Y, Z; the body of the n-th returns n - 1 from `method`.
ClassPool == <<N_X, N_Y, N_Z>>

IsNextClass(name) ==
    \E n \in 1..Len(ClassPool) :
        /\ ClassPool[n] = name
        /\ name \notin DOMAIN classes
        /\ \A k \in 1..(n - 1) : ClassPool[k] \in DOMAIN classes

BodyValue(name) == IntVal((CHOOSE n \in 1..Len(ClassPool) : ClassPool[n] = name) - 1)

FlagChoices == {{}, {"virtual"}, {"abstract"}, {"override"}, {"override", "virtual"}}

MethodMembers(name) ==
    {Member(N_method, TRUE, flags, T_int, BodyValue(name)) : flags \in FlagChoices}
        \cup {Member(N_method, FALSE, {}, T_int, BodyValue(name))}

InitMember == Member(N_init, TRUE, {}, T_None, NoneVal)

GetattrMember == Member(N_getattr, TRUE, {}, T_Missing, NoneVal)

\* the bodies: nothing, a constructor, a blacklisted method, `method` in each
\* form, and a constructor followed by `method`
BodyChoices(name) ==
    {<<>>, <<InitMember>>, <<GetattrMember>>}
        \cup {<<m>> : m \in MethodMembers(name)}
        \cup {<<InitMember, m>> : m \in {n \in MethodMembers(name) : n.flags \subseteq {"override"}}}

\* one base, or two declared classes
BasesChoices ==
    {<<a>> : a \in DOMAIN classes}
        \cup {<<p[1], p[2]>> : p \in {q \in (DOMAIN classes \ {N_BaseObject}) \X
                                             (DOMAIN classes \ {N_BaseObject}) : q[1] # q[2]}}

FriendDecls == {NoFriends, DeclaredFriends({N_function}), DeclaredFriends({N_Friend})}

DefineStep ==
    \E name \in {N_X, N_Y, N_Z} :
        /\ IsNextClass(name)
        /\ \E bases \in BasesChoices : \E dictionary \in BodyChoices(name) :
               DefineClass(name, bases, dictionary, NoFriends)

DefineFriendsStep ==
    \E name \in {N_X, N_Y, N_Z} :
        /\ IsNextClass(name)
        /\ \E bases \in BasesChoices : \E dictionary \in {<<>>, <<InitMember>>} :
               \E declared \in FriendDecls :
                   DefineClass(name, bases, dictionary, declared)

CallMethodStep ==
    \E c \in DOMAIN classes \ {N_BaseObject} : CallMethod(c, N_method)

\* The class statements with their annotations: one member, a method with
\* each choice of parameters, of their annotations and of the return
\* annotation, a property (a property object is not callable) with or
\* without a return annotation, or a value with or without an annotation.
ParamLists ==
    {<<Param(N_self, "receiver", a)>> : a \in BOOLEAN}
        \cup {<<Receiver, Param(N_param, "plain", a)>> : a \in BOOLEAN}
        \cup {<<Receiver, Param(N_args, "star_args", a)>> : a \in BOOLEAN}
        \cup {<<Receiver, Param(N_kwargs, "star_kwargs", a)>> : a \in BOOLEAN}
        \cup {<<Receiver, Param(N_param, "plain", a), Param(N_args, "star_args", FALSE)>> :
                 a \in BOOLEAN}

AnnotatedMembers ==
    {[Member(N_method, TRUE, {}, ret, NoneVal) EXCEPT !.params = params] :
        params \in ParamLists, ret \in {T_None, T_Missing}}
        \cup {[Member(N_prop, FALSE, {}, ret, NoneVal) EXCEPT
                  !.property = TRUE, !.params = <<Receiver>>] : ret \in {T_None, T_Missing}}
        \cup {[Member(N_attr, FALSE, {}, T_None, NoneVal) EXCEPT !.annotated = a] :
                 a \in BOOLEAN}

DeclareStep ==
    \E name \in {N_X, N_Y, N_Z} :
        /\ IsNextClass(name)
        /\ \E m \in AnnotatedMembers :
               DefineClass(name, <<N_BaseObject>>, <<m>>, NoFriends)

(***************************************************************************)
(* Specifications of the attribute mediator: the writes, and the reads of  *)
(* a constructed instance.                                                 *)
(***************************************************************************)
FriendChoices ==
    {{}, {N_Friend}, {N_function}, {Join(N_Friend, N_method)}, {N_Derived}}

Init ==
    /\ owner_class \in {N_Test, N_Derived}
    /\ friends_decl \in FriendChoices
    /\ obj_dict = [k \in Keys |-> Unset]
    /\ last = [op |-> "none"]
    /\ classes = InitialClasses

Next == SetAttrStep

Spec == Init /\ [][Next]_vars

NextGet == ConstructStep \/ GetAttrStep

SpecGet == Init /\ [][NextGet]_vars

InitCall ==
    /\ owner_class = N_Test
    /\ friends_decl = {}
    /\ obj_dict = [k \in Keys |-> Unset]
    /\ last = [op |-> "none"]
    /\ classes = InitialClasses

NextCall == CallStep

SpecCall == InitCall /\ [][NextCall]_vars

(***************************************************************************)
(* Specifications of class construction: the class statements with their   *)
(* methods and calls on instances; the class statements with their         *)
(* __friends__.                                                            *)
(***************************************************************************)
NextClass == DefineStep \/ CallMethodStep

SpecClass == InitCall /\ [][NextClass]_vars

NextFriends == DefineFriendsStep

SpecFriends == InitCall /\ [][NextFriends]_vars

\* the class statements with their annotations, and calls on instances
NextDeclare == DeclareStep \/ CallMethodStep

SpecDeclare == InitCall /\ [][NextDeclare]_vars

\* the writes with their calling frames
NextFrom == SetAttrFromStep

SpecFrom == InitCall /\ [][NextFrom]_vars

(***************************************************************************)
(* Notions the properties below are stated with.                           *)
(***************************************************************************)
\* matches(value, spec) of the Type Matcher: a const wrapper matches as its
\* inner spec does
matches(value, spec) == value.type = spec.arg

IsConst(c, key) == Hint(c, key).origin = "Final"

TypeMismatch == Raise("TypeMismatchException")
ConstModifier == Raise("ConstModifierException")
AccessModifier == Raise("AccessModifierException")

\* the non-public members of Test as a caller writes them, and the key each
\* is stored under (a private member is keyed by its declaring class, Test)
ProtectedNames == {N_p_attribute, N_p_Friend_x}
PrivateNames == {N_pp_attribute, N_Test_pp_attribute}
StoredKey(name) == Mangle(N_Test, name)
IsStored(name) == obj_dict[StoredKey(name)] # Unset
Stored(name) == Return(obj_dict[StoredKey(name)])

\* a read by a method whose code is in the body of its receiver's class
IsMethodRead ==
    /\ last.op = "getattr"
    /\ last.frame.has_self
    /\ last.frame.lexical = last.frame.self_class
    /\ last.frame.module # N_inspect

\* a read by a module-level function
IsFunctionRead ==
    /\ last.op = "getattr"
    /\ ~last.frame.has_self
    /\ last.frame.lexical = NoClass
    /\ last.frame.module # N_inspect

Unrelated(a, b) == a \notin MroButObject(b) /\ b \notin MroButObject(a)

MethodNames == {fr.co_name : fr \in {g \in Frames : g.has_self}}

(***************************************************************************)
(* Properties of __setattr__ (specification Spec).                         *)
(***************************************************************************)
\* C1: a write to a declared attribute (not Const, or Const written from the
\* constructor) stores a matching value, and raises TypeMismatchException for
\* a value that does not match, leaving the instance as it was.
C1_TypedWrite ==
    (/\ last.op = "setattr"
     /\ last.key \in HintKeys(owner_class)
     /\ (~IsConst(owner_class, last.key) \/ last.function = N_init))
    => IF matches(last.value, Hint(owner_class, last.key))
       THEN last.result = Return(NoneVal) /\ obj_dict[last.key] = last.value
       ELSE last.result = TypeMismatch /\ obj_dict = last.before

\* C4: a write to a Const attribute from a caller that is not a constructor
\* raises ConstModifierException whatever the value, and leaves the instance
\* as it was.
C4_ConstWriteOutsideConstructor ==
    (/\ last.op = "setattr"
     /\ last.key \in HintKeys(owner_class)
     /\ IsConst(owner_class, last.key)
     /\ last.function # N_init)
    => last.result = ConstModifier /\ obj_dict = last.before

C4_Witness ==
    /\ last.op = "setattr"
    /\ last.key = N_const
    /\ last.function = N_method
    /\ last.before[N_const] = IntVal(0)
    /\ last.value = IntVal(1)
    /\ last.result = ConstModifier
    /\ obj_dict[N_const] = IntVal(0)

CheckedArgumentMismatch ==
    /\ last.op = "call"
    /\ last.f.ret # T_Missing
    /\ Len(last.function_args) >= 1
    /\ Len(CheckedArgs(last.f, last.function_args)) <= Len(last.f.hints)
    /\ \E i \in 1..Len(CheckedArgs(last.f, last.function_args)) :
          ~matches(CheckedArgs(last.f, last.function_args)[i], last.f.hints[i])

C3_ReturnChecked ==
    (last.op = "call" /\ last.returned # Unset)
    => /\ (last.f.ret = T_NoReturn)
          => ((last.result = TypeMismatch) <=> (last.returned # NoneVal))
       /\ (last.f.ret # T_NoReturn)
          => ((last.result = TypeMismatch) <=> ~matches(last.returned, last.f.ret))
       /\ (last.result # TypeMismatch) => (last.result = Return(last.returned))

C3_Witness ==
    /\ last.op = "call"
    /\ last.f = F_no_return
    /\ last.entered
    /\ last.returned = IntVal(0)
    /\ last.result = TypeMismatch

\* a call on the instance that Python can bind, of a function with a return
\* annotation
IsBoundCall ==
    /\ last.op = "call"
    /\ last.f.ret # T_Missing
    /\ Len(last.function_args) >= 1
    /\ last.function_args[1] = SelfVal
    /\ ~BindError(last.f, last.function_args, last.kwargs)

\* the annotation of the declared parameter `name` of a method: self has none
ParamHint(f, name) == f.hints[ParamIndex(f, name) - 1]

IsDeclaredParam(f, name) == \E i \in 2..Len(f.params) : f.params[i] = name

\* the positional arguments bound to declared parameters all match
PositionalMatch ==
    \A i \in 2..MinLen(last.function_args, last.f.params) :
        matches(last.function_args[i], last.f.hints[i - 1])

\* some argument is bound to a declared parameter by keyword and does not
\* match the parameter's annotation
KeywordMismatch ==
    \E kw \in last.kwargs :
        IsDeclaredParam(last.f, kw[1]) /\ ~matches(kw[2], ParamHint(last.f, kw[1]))

KeywordMatch ==
    \A kw \in last.kwargs :
        IsDeclaredParam(last.f, kw[1]) => matches(kw[2], ParamHint(last.f, kw[1]))

\* some argument is absorbed by *args or by **kwargs
Absorbed ==
    \/ Len(last.function_args) > Len(last.f.params)
    \/ \E kw \in last.kwargs : ~IsDeclaredParam(last.f, kw[1])

\* C21: the wrapper checks exactly the arguments bound to declared
\* parameters: a keyword argument that does not match its parameter's
\* annotation raises TypeMismatchException before the body, and a call whose
\* declared parameters all match and that passes arguments absorbed by *args
\* or **kwargs is not rejected: its body runs.
C21_BoundArgumentsChecked ==
    IsBoundCall =>
        /\ (PositionalMatch /\ KeywordMismatch)
               => (last.result = TypeMismatch /\ ~last.entered)
        /\ (PositionalMatch /\ KeywordMatch /\ Absorbed) => last.entered

(***************************************************************************)
(* Properties of __getattribute__ (specification SpecGet).                 *)
(***************************************************************************)
\* C6: on a Derived instance, a Derived method (Derived not being a friend)
\* reading the private member of Test as self.__attribute raises
\* AccessModifierException, and reading an inherited protected member
\* returns the stored value.
C6_DerivedReads ==
    (/\ IsMethodRead
     /\ owner_class = N_Derived
     /\ last.frame.self_class = N_Derived)
    => /\ (/\ last.name = N_pp_attribute
           /\ N_Derived \notin Friends(owner_class)
           /\ Join(N_Derived, last.frame.co_name) \notin Friends(owner_class))
          => last.result = AccessModifier
       /\ (last.name \in ProtectedNames /\ IsStored(last.name))
          => last.result = Stored(last.name)

C6_Witness ==
    /\ IsMethodRead
    /\ owner_class = N_Derived
    /\ last.frame = MethodFrame(N_method, N_Derived, N_Derived)
    /\ last.item = Underscore(N_Derived) \o N_pp_attribute
    /\ obj_dict[N_Test_pp_attribute] = IntVal(1)
    /\ last.result = AccessModifier

\* C7: a method of class T reading a non-public member of an instance of
\* exactly T, the private members T declares included, gets the stored value.
C7_SameClassReads ==
    (/\ IsMethodRead
     /\ last.frame.self_class = owner_class
     /\ last.name \in ProtectedNames \cup PrivateNames
     /\ (last.name \in PrivateNames => owner_class = N_Test)
     /\ IsStored(last.name))
    => last.result = Stored(last.name)

\* C8: a method of a class C unrelated to the owner reading a protected
\* member, or a private member the owner's class declares, gets the stored
\* value when C is in the friend set, and AccessModifierException when
\* neither C nor a qualified method of C is.
C8_FriendClassReads ==
    (/\ IsMethodRead
     /\ Unrelated(last.frame.self_class, owner_class)
     /\ last.name \in ProtectedNames \cup PrivateNames)
    => /\ (/\ last.frame.self_class \in Friends(owner_class)
           /\ (last.name \in PrivateNames => owner_class = N_Test)
           /\ IsStored(last.name))
          => last.result = Stored(last.name)
       /\ (/\ last.frame.self_class \notin Friends(owner_class)
           /\ \A m \in MethodNames :
                 Join(last.frame.self_class, m) \notin Friends(owner_class))
          => last.result = AccessModifier

\* C9: a module-level function f reading a protected or private member gets
\* the stored value when f is in the friend set, and AccessModifierException
\* when it is not.
C9_FriendFunctionReads ==
    (/\ IsFunctionRead
     /\ last.name \in ProtectedNames \cup PrivateNames)
    => /\ (last.frame.co_name \in Friends(owner_class) /\ IsStored(last.name))
          => last.result = Stored(last.name)
       /\ (last.frame.co_name \notin Friends(owner_class))
          => last.result = AccessModifier

\* C10: with "C.m" in the friend set and "C" not, method m of the unrelated
\* class C reading a protected or private member gets the stored value, and
\* any other method of C gets AccessModifierException.
C10_FriendMethodReads ==
    (/\ IsMethodRead
     /\ Unrelated(last.frame.self_class, owner_class)
     /\ last.frame.self_class \notin Friends(owner_class)
     /\ \E m \in MethodNames : Join(last.frame.self_class, m) \in Friends(owner_class)
     /\ last.name \in ProtectedNames \cup PrivateNames)
    => /\ (/\ Join(last.frame.self_class, last.frame.co_name) \in Friends(owner_class)
           /\ IsStored(last.name))
          => last.result = Stored(last.name)
       /\ (Join(last.frame.self_class, last.frame.co_name) \notin Friends(owner_class))
          => last.result = AccessModifier

(***************************************************************************)
(* Properties of class construction (specifications SpecFriends and        *)
(* SpecClass).                                                             *)
(***************************************************************************)
IsClassStatement == last.op = "class"

Created == last.result = Return(NoneVal) /\ last.name \in DOMAIN classes

Refused(e) == last.result = Raise(e) /\ last.name \notin DOMAIN classes

Body(i) == last.dictionary[i]

DirectBase(j) == last.bases[j]

\* a special method: its name starts and ends with two underscores
IsSpecialName(name) == StartsWith(name, DunderPrefix) /\ EndsWith(name, DunderPrefix)

\* a method of the body that is not a special method
IsOrdinaryMethod(m) == m.callable /\ ~IsSpecialName(m.name)

BaseDefines(b, name) == InDict(classes[b].dict, name)

\* the base defines the name as a method flagged virtual or abstract / as a
\* method flagged neither
BaseFlagsOpen(b, name) ==
    /\ BaseDefines(b, name)
    /\ DictMember(classes[b].dict, name).callable
    /\ DictMember(classes[b].dict, name).flags \cap {"virtual", "abstract"} # {}

BaseLeavesClosed(b, name) ==
    /\ BaseDefines(b, name)
    /\ DictMember(classes[b].dict, name).callable
    /\ DictMember(classes[b].dict, name).flags \cap {"virtual", "abstract"} = {}

\* member i of the body and direct base j are the only member and direct base
\* of the class statement that share a name
SoleShared(i, j) ==
    \A k \in 1..Len(last.dictionary) : \A n \in 1..Len(last.bases) :
        (k # i \/ n # j) => ~BaseDefines(DirectBase(n), Body(k).name)

\* the classes a class with these direct bases inherits from
Ancestors(bases) ==
    UNION {{c \in DOMAIN classes : \E n \in 1..Len(classes[b].mro) : classes[b].mro[n] = c} :
              b \in {bases[j] : j \in 1..Len(bases)}}

\* C11: after a class statement the friend set of the class is its declared
\* friends united with the friend sets of all its direct bases, and no class
\* holds fewer friends than one of its direct bases.
C11_FriendsInherited ==
    /\ (IsClassStatement /\ Created)
       => classes[last.name].friends =
             last.declared.names
                \cup UNION {classes[DirectBase(j)].friends : j \in 1..Len(last.bases)}
    /\ \A c \in DOMAIN classes \ {N_BaseObject} : \A j \in 1..Len(classes[c].bases) :
          classes[classes[c].bases[j]].friends \subseteq classes[c].friends

C14_OverrideOfNothing ==
    IsClassStatement =>
        \A i \in 1..Len(last.dictionary) :
            (/\ Body(i).callable
             /\ "override" \in Body(i).flags
             /\ \A a \in Ancestors(last.bases) : ~BaseDefines(a, Body(i).name))
            => Refused("OverrideMethodException")

\* an ancestor flags the method `name` abstract
AbstractIn(a, name) ==
    /\ BaseDefines(a, name)
    /\ DictMember(classes[a].dict, name).callable
    /\ "abstract" \in DictMember(classes[a].dict, name).flags

\* a class of the chain of the new class (its body, then its ancestors) holds
\* a same-named member that is not flagged abstract
ShadowedInChain(name) ==
    \/ \E i \in 1..Len(last.dictionary) :
          Body(i).name = name /\ "abstract" \notin Body(i).flags
    \/ \E a \in Ancestors(last.bases) :
          BaseDefines(a, name) /\ "abstract" \notin DictMember(classes[a].dict, name).flags

\* the same, the member being a method
ImplementedInChain(name) ==
    \/ \E i \in 1..Len(last.dictionary) :
          Body(i).name = name /\ Body(i).callable /\ "abstract" \notin Body(i).flags
    \/ \E a \in Ancestors(last.bases) :
          /\ BaseDefines(a, name)
          /\ DictMember(classes[a].dict, name).callable
          /\ "abstract" \notin DictMember(classes[a].dict, name).flags

\* no member of the body shares a name with a direct base
NothingShared ==
    \A k \in 1..Len(last.dictionary) : \A n \in 1..Len(last.bases) :
        ~BaseDefines(DirectBase(n), Body(k).name)

\* C15: a class statement is refused with AbstractMethodException when an
\* ancestor's abstract method has no implementation in the chain of the new
\* class (the body shares no name with a direct base, so that no other rule
\* applies), and is not refused with it when every abstract method of an
\* ancestor has an implementation somewhere in the chain.
C15_AbstractImplemented ==
    IsClassStatement =>
        /\ (/\ NothingShared
            /\ \E a \in Ancestors(last.bases) : \E name \in {N_method} :
                  AbstractIn(a, name) /\ ~ShadowedInChain(name))
           => Refused("AbstractMethodException")
        /\ (\A a \in Ancestors(last.bases) : \A name \in {N_method} :
                  AbstractIn(a, name) => ImplementedInChain(name))
           => last.result # Raise("AbstractMethodException")

\* a declared callable of the class statement: a method or a property
IsDeclaredCallable(m) == m.callable \/ m.property

\* a parameter that must carry an annotation and has none
LacksParameterAnnotation(m) ==
    \E k \in 1..Len(m.params) : m.params[k].kind = "plain" /\ ~m.params[k].annotated

\* an implicit receiver or a variadic collector that carries an annotation
HasUnnecessaryAnnotation(m) ==
    \E k \in 1..Len(m.params) :
        m.params[k].kind \in {"receiver", "star_args", "star_kwargs"} /\ m.params[k].annotated

LacksReturnAnnotation(m) == m.ret = T_Missing

\* a plain, non-special, non-callable member without an annotation
LacksAttributeAnnotation(m) ==
    ~IsDeclaredCallable(m) /\ ~IsSpecialName(m.name) /\ ~m.annotated

\* C16: a class statement whose body declares a callable with a parameter,
\* other than the implicit receiver and the variadic collectors, that has no
\* annotation is refused with MissingParameterTypeAnnotationException, and one
\* whose implicit receiver or variadic collector carries an annotation is
\* refused with UnnecessaryParameterTypeAnnotationException (each taken where
\* it is the only fault of the body); the class is not created.
C16_ParameterAnnotationsAtConstruction ==
    IsClassStatement =>
        \A i \in 1..Len(last.dictionary) :
            (IsDeclaredCallable(Body(i)) /\ ~LacksReturnAnnotation(Body(i))) =>
                /\ (LacksParameterAnnotation(Body(i)) /\ ~HasUnnecessaryAnnotation(Body(i)))
                       => Refused("MissingParameterTypeAnnotationException")
                /\ (HasUnnecessaryAnnotation(Body(i)) /\ ~LacksParameterAnnotation(Body(i)))
                       => Refused("UnnecessaryParameterTypeAnnotationException")

\* C17: a class statement whose body declares a method or a property without
\* a return annotation (and with no other fault) is refused with
\* MissingReturnTypeAnnotationException: the class is not created, so no
\* instance exists and the callable is never invoked.
C17_ReturnAnnotationAtConstruction ==
    IsClassStatement =>
        \A i \in 1..Len(last.dictionary) :
            (/\ IsDeclaredCallable(Body(i))
             /\ LacksReturnAnnotation(Body(i))
             /\ ~LacksParameterAnnotation(Body(i))
             /\ ~HasUnnecessaryAnnotation(Body(i)))
                => Refused("MissingReturnTypeAnnotationException")

\* C18: a class statement whose body has a plain, non-special, non-callable
\* member without an annotation is refused with
\* MissingAttributeTypeAnnotationException: the class is not created.
C18_AttributeAnnotationAtConstruction ==
    IsClassStatement =>
        \A i \in 1..Len(last.dictionary) :
            LacksAttributeAnnotation(Body(i))
                => Refused("MissingAttributeTypeAnnotationException")

\* C19: a class statement whose body redefines special methods of its direct
\* base, and nothing else of it, creates the class, whatever the flags.
C19_SpecialMethodsExempt ==
    (/\ IsClassStatement
     /\ Len(last.bases) = 1
     /\ \E i \in 1..Len(last.dictionary) :
           IsSpecialName(Body(i).name) /\ BaseDefines(DirectBase(1), Body(i).name)
     /\ \A i \in 1..Len(last.dictionary) :
           BaseDefines(DirectBase(1), Body(i).name) => IsSpecialName(Body(i).name)
     /\ \A a \in Ancestors(last.bases) : AbstractIn(a, N_method) => ImplementedInChain(N_method))
    => Created

(***************************************************************************)
(* Properties of __setattr__ with its calling frame (specification         *)
(* SpecFrom).                                                              *)
(***************************************************************************)
\* C20: a write to a Const attribute whose immediate caller is the
\* constructor of a class unrelated to the class of the instance raises
\* ConstModifierException and stores nothing.
C20_ConstForeignConstructor ==
    (/\ last.op = "setattr_from"
     /\ last.key \in HintKeys(owner_class)
     /\ IsConst(owner_class, last.key)
     /\ last.frame.co_name = N_init
     /\ last.frame.has_self
     /\ last.frame.lexical = last.frame.self_class
     /\ Unrelated(last.frame.self_class, owner_class))
    => /\ last.result = ConstModifier
       /\ obj_dict = last.before

\* C22: a write to a name that has no annotation anywhere in the resolution
\* order of the instance's class raises AnnotationException (the error for a
\* missing attribute annotation) whoever the caller is and whatever the
\* value, and the instance is as it was.
C22_UndeclaredWriteRefused ==
    (last.op = "setattr_from" /\ last.key \notin HintKeys(owner_class))
    => /\ last.result = Raise("AnnotationException")
       /\ obj_dict = last.before

\* a class Other writes self.__attribute on an instance that holds values:
\* the key it sends, _Other__attribute, is declared nowhere
C22_Witness ==
    /\ last.op = "setattr_from"
    /\ last.name = N_pp_attribute
    /\ last.frame = MethodFrame(N_init, N_Other, N_Other)
    /\ last.key = Underscore(N_Other) \o N_pp_attribute
    /\ last.value = IntVal(0)
    /\ last.before[N_Test_pp_attribute] = IntVal(1)
    /\ last.result = Raise("AnnotationException")
    /\ obj_dict = last.before

(***************************************************************************)
(* Further properties of the calling context of __getattribute__           *)
(* (specification SpecGet) and of __setattr__ (specification SpecFrom).    *)
(***************************************************************************)
IsPublicName(item) == item[1] # "_"

\* C23: a read of a public name, of a special name (delimited by two
\* underscores on each side), or a read issued from the module inspect, never
\* raises AccessModifierException, whoever the caller is and whatever the
\* friends of the class are.
C23_UnconditionalReads ==
    (/\ last.op = "getattr"
     /\ \/ IsPublicName(last.item)
        \/ IsSpecialName(last.item)
        \/ last.frame.module = N_inspect)
    => last.result # AccessModifier

\* inspect.getmembers reads a stored protected attribute of a class that
\* declares no friends
C23_Witness ==
    /\ last.op = "getattr"
    /\ last.frame = InspectFrame
    /\ last.item = N_p_attribute
    /\ friends_decl = {}
    /\ IsStored(N_p_attribute)
    /\ last.result = Stored(N_p_attribute)

\* a read by a method, from outside inspect, that no friend entry of the
\* owner's class matches
IsUnlistedMethodRead ==
    /\ last.op = "getattr"
    /\ last.frame.has_self
    /\ last.frame.lexical # NoClass
    /\ last.frame.module # N_inspect
    /\ last.frame.self_class \notin Friends(owner_class)
    /\ Join(last.frame.self_class, last.frame.co_name) \notin Friends(owner_class)

\* the class of the caller's receiver is the owner's class or one of its
\* ancestors in resolution order
ReceiverInOwnerChain == last.frame.self_class \in MroButObject(owner_class)

\* a protected member is granted exactly to the receivers of the owner's chain
ProtectedByInheritance ==
    (IsUnlistedMethodRead /\ last.item \in ProtectedNames /\ IsStored(last.item))
    => /\ ReceiverInOwnerChain => last.result = Stored(last.item)
       /\ ~ReceiverInOwnerChain => last.result = AccessModifier

\* a private member is not granted to a receiver of a strict ancestor class
PrivateNotByInheritance ==
    (/\ IsUnlistedMethodRead
     /\ last.item = N_Test_pp_attribute
     /\ IsStored(last.item)
     /\ ReceiverInOwnerChain
     /\ last.frame.self_class # owner_class)
    => last.result = AccessModifier

\* C24: for a method caller that no friend entry matches, a read of a
\* protected member is granted exactly when the class of the caller's
\* receiver is the owner's class or one of its ancestors in resolution order
\* (a receiver of a subclass is denied on an owner of the base class), and a
\* read of a private member is never granted to a receiver of an ancestor
\* class.
C24_ProtectedByInheritanceOnly == ProtectedByInheritance /\ PrivateNotByInheritance

\* C25: a method of a friend class reading the private member __attribute
\* that Test declares gets the stored value, on an instance of Test and on an
\* instance of a subclass of Test alike: the key is remapped to the one
\* qualified by the declaring class.
C25_FriendPrivateRemap ==
    (/\ IsMethodRead
     /\ last.frame.self_class \in Friends(owner_class)
     /\ last.frame.self_class \notin MroButObject(owner_class)
     /\ last.name = N_pp_attribute
     /\ IsStored(N_pp_attribute))
    => last.result = Stored(N_pp_attribute)

\* C26: a write of a matching value to a declared protected or private
\* attribute that is not Const is stored whoever the caller is (a method of
\* the class, of an unrelated class, a free function) although the class
\* declares no friends: writes are not access-controlled.
C26_WritesNotAccessControlled ==
    (/\ last.op = "setattr_from"
     /\ last.key \in {N_p_attribute, N_Test_pp_attribute}
     /\ ~IsConst(owner_class, last.key)
     /\ matches(last.value, Hint(owner_class, last.key)))
    => /\ last.result = Return(NoneVal)
       /\ obj_dict = [last.before EXCEPT ![last.key] = last.value]

\* a free function overwrites the stored private attribute of Test
C26_Witness ==
    /\ last.op = "setattr_from"
    /\ last.frame = FunctionFrame(N_function)
    /\ last.key = N_Test_pp_attribute
    /\ last.before[N_Test_pp_attribute] = IntVal(0)
    /\ last.value = IntVal(1)
    /\ friends_decl = {}
    /\ last.result = Return(NoneVal)
    /\ obj_dict[N_Test_pp_attribute] = IntVal(1)

\* a read by a module-level function that holds a local named self
IsSelfFunctionRead ==
    /\ last.op = "getattr"
    /\ last.frame.has_self
    /\ last.frame.lexical = NoClass
    /\ last.frame.module # N_inspect

IsGuardedName(item) == ~IsPublicName(item) /\ ~IsSpecialName(item)

\* no friend entry names the class of the caller's local self or its method
ReceiverUnlisted ==
    /\ last.frame.self_class \notin Friends(owner_class)
    /\ Join(last.frame.self_class, last.frame.co_name) \notin Friends(owner_class)

\* C27: the caller counts as a bound method exactly when its frame holds a
\* local named self.  A free function named in the friend set that holds a
\* local self (of an unrelated, unlisted class) is denied: the friend-function
\* rule does not apply to it.  An unlisted free function whose local self is
\* an object of the owner's class or of one of its ancestors reads a stored
\* protected member.  A free function without a local self is granted by its
\* name alone.
C27_SelfLocalDecides ==
    /\ (/\ IsSelfFunctionRead
        /\ last.frame.co_name \in Friends(owner_class)
        /\ ~ReceiverInOwnerChain
        /\ ReceiverUnlisted
        /\ IsGuardedName(last.item))
       => last.result = AccessModifier
    /\ (/\ IsSelfFunctionRead
        /\ last.frame.co_name \notin Friends(owner_class)
        /\ ReceiverInOwnerChain
        /\ ReceiverUnlisted
        /\ last.item \in ProtectedNames
        /\ IsStored(last.item))
       => last.result = Stored(last.item)
    /\ (IsFunctionRead /\ IsGuardedName(last.item))
       => ((last.result = AccessModifier) <=> (last.frame.co_name \notin Friends(owner_class)))

\* the function `function`, a friend of Test, holds a local self of the
\* unrelated class Other and is denied a stored protected member
C27_Witness ==
    /\ IsSelfFunctionRead
    /\ last.frame = SelfFunctionFrame(N_function, N_Other)
    /\ friends_decl = {N_function}
    /\ last.item = N_p_attribute
    /\ IsStored(N_p_attribute)
    /\ last.result = AccessModifier

====
